---- MODULE Spec2Model ----
(***************************************************************************)
(* A model of EnterobaseAssemblyDownloader (ClassEnterobaseAssemblyDown-    *)
(* loader.py) and of its driver main (downloadAssemblies.py).               *)
(*                                                                         *)
(* A Python str is a sequence of pieces, so that concatenation, "%" and     *)
(* str.join are sequence concatenation.  The remote service and the input  *)
(* file are the environment: their answers are drawn from small sets.      *)
(*                                                                         *)
(* Two calls depend on whether the interpreter tells str from bytes:        *)
(* base64.encodestring on a str (line 153) and write of the response body   *)
(* to a file opened in text mode (line 125).  Python 3 raises at both       *)
(* (TypeError; AttributeError at line 153 from 3.9 on, where encodestring   *)
(* is gone); an interpreter whose str is a byte string returns from both.   *)
(* The two outcomes of each call are kept, fixed for a run by               *)
(* encodeAcceptsStr and writeAcceptsBytes: with encodeAcceptsStr false no   *)
(* request is ever built, so the loop body is live only where it is true.   *)
(***************************************************************************)
EXTENDS Integers, Sequences, FiniteSets, TLC

VARIABLES
    pc,                 \* position of the flow of control
    exc,                \* the uncaught exception that ended the process, or ""
    driver,             \* "main" (downloadAssemblies.main) or "api" (another caller of the class)
    encodeAcceptsStr,   \* interpreter: base64.encodestring takes a str (line 153)
    writeAcceptsBytes,  \* interpreter: a text-mode file takes the response body (line 125)
    input_file,         \* the lines of the barcode list, each a sequence of pieces
    args,               \* what the caller passed: the path of the list and the database
    time_interv,        \* the -t argument
    time,               \* self.__time
    append_barcode,     \* self.__append_barcode
    db,                 \* self.__db
    api_token,          \* self.__api_token
    barcodes,           \* self.__barcodes, an insertion-ordered dict: a sequence of <<name, barcode>>
    barcode_error_log,  \* self.__barcode_error_log
    fasta_error_log,    \* self.__fasta_error_log
    it,                 \* number of items the for loop of download_assemblies has taken
    n,                  \* the local n of download_assemblies
    phase,              \* "resolve" or "download": which request is being made
    fasta_url,          \* the local fasta_url, <<>> while unset
    direct_calls,       \* calls of get_api_token made by the driver
    files,              \* the files under the output directory: [path, data]
    trace               \* what the process did to the outside world, in order

vars == <<pc, exc, driver, encodeAcceptsStr, writeAcceptsBytes, input_file, args,
          time_interv, time, append_barcode, db, api_token, barcodes,
          barcode_error_log, fasta_error_log, it, n, phase, fasta_url,
          direct_calls, files, trace>>

----------------------------------------------------------------------------
(* Bounds of the model *)

MaxLines == 2
MaxDirectCalls == 2

(* Program constants *)

None == 0
DefaultTime == 4
HTTP_OK == 200

valid_db == {"senterica", "ecoli", "clostridium", "vibrio", "yersinia",
             "helicobacter", "mcatarrhalis"}

(* The environment's small sets *)

Names == {"strainA", "strainB"}
Barcodes == {"BC1", "BC2"}
Databases == {"ecoli", "plants"}
InputArgs == {"list.tsv", "missing.tsv", "i"}
ExistingFiles == {"list.tsv"}
Intervals == {-1, 0, 2}
Links == {<<"https://enterobase.warwick.ac.uk/fasta/1">>}
Bodies == {">seq1\nACGT\n", ">seq2\nTTGA\n"}
OtherCodes == {204}
HTTPErrors == {[code |-> 404, msg |-> "Not Found", body |-> "b'no such record'"]}
LoginErrors == {[code |-> 401, msg |-> "Unauthorized", body |-> "b'bad login'"]}
OutDir == "out/"
Timestamp == "%Y%m%d_%H%M"

SeqsUpTo(S, k) == UNION {[1..m -> S] : m \in 0..k}

(* The lines a list may hold: name, tab, identifier, newline; one of them    *)
(* with a blank in front; one with a single column                          *)
RawLines ==
    {<<nm, "\t", bc, "\n">> : nm \in Names, bc \in Barcodes}
        \cup {<<" ", "strainA", "\t", "BC2", "\n">>, <<"strainA", "\n">>}

InputFiles == SeqsUpTo(RawLines, MaxLines)

----------------------------------------------------------------------------
(* Strings *)

RECURSIVE Join(_, _)
Join(sep, list) ==
    IF list = <<>> THEN <<>>
    ELSE IF Len(list) = 1 THEN list[1]
    ELSE list[1] \o sep \o Join(sep, Tail(list))

(* A field of an error record: a str (pieces) or an int *)
StrField(s) == [t |-> "str", i |-> 0, s |-> s]
IntField(i) == [t |-> "int", i |-> i, s |-> <<>>]

----------------------------------------------------------------------------
(* The outside world, as seen through trace *)

(* ev: "login", "resolve", "download" (a call of urlopen), "open" (a file    *)
(* opened for writing) or "wait" (time.sleep); k: the entry being processed, *)
(* 0 outside the loop; url: the address or the path; auth: the token in the  *)
(* Authorization header; kind, code, body: how urlopen ended; secs: the      *)
(* sleep                                                                     *)
Event(ev, k, u, auth, r, secs) ==
    [ev |-> ev, k |-> k, url |-> u, auth |-> auth, kind |-> r.kind,
     code |-> r.code, body |-> r.body, secs |-> secs]

NoAnswer == [kind |-> "", code |-> 0, msg |-> "", body |-> ""]

Logins == {j \in 1..Len(trace) : trace[j].ev = "login"}
Requests(ev, k) == {j \in 1..Len(trace) : trace[j].ev = ev /\ trace[j].k = k}
Waits(k) == {j \in 1..Len(trace) : trace[j].ev = "wait" /\ trace[j].k = k}

Paths == {f.path : f \in files}
Data(path) == (CHOOSE f \in files : f.path = path).data

(* open(path, "w") followed by write(data): the file is created or truncated *)
WriteFile(fs, path, data) ==
    {f \in fs : f.path # path} \cup {[path |-> path, data |-> data]}

----------------------------------------------------------------------------
(* The initial state: the process has started, nothing is constructed *)

Init ==
    /\ pc = "start"
    /\ exc = ""
    /\ driver \in {"main", "api"}
    /\ encodeAcceptsStr \in BOOLEAN
    /\ writeAcceptsBytes \in BOOLEAN
    /\ input_file \in InputFiles
    /\ args = [input |-> "", db |-> ""]
    /\ time_interv = 0
    /\ time = 0
    /\ append_barcode = FALSE
    /\ db = ""
    /\ api_token = None
    /\ barcodes = <<>>
    /\ barcode_error_log = <<>>
    /\ fasta_error_log = <<>>
    /\ it = 0
    /\ n = 0
    /\ phase = ""
    /\ fasta_url = <<>>
    /\ direct_calls = 0
    /\ files = {}
    /\ trace = <<>>

(* sys.exit(status) and an exception nobody catches *)
Exit(status) == pc' = (IF status = 0 THEN "exit0" ELSE "exit1") /\ exc' = exc
Raise(e) == pc' = "crash" /\ exc' = e

----------------------------------------------------------------------------
(* downloadAssemblies.main, lines 49-53, and the constructor *)

PrintInstructions ==
    /\ pc = "start"
    /\ driver = "main"
    /\ \E a_db \in Databases : args' = [input |-> "i", db |-> a_db]
    /\ Exit(0)
    /\ UNCHANGED <<driver, encodeAcceptsStr, writeAcceptsBytes, input_file,
                   time_interv, time, append_barcode, db, api_token, barcodes,
                   barcode_error_log, fasta_error_log, it, n, phase, fasta_url,
                   direct_calls, files, trace>>

CoerceNegativeOnly(t) == IF t >= 0 THEN t ELSE DefaultTime

(* line 33 *)
CoerceInterval(t) == IF t > 0 THEN t ELSE DefaultTime

AnyFileIsThere(a_input) == TRUE

(* line 41 *)
IsValidDb(a_db) == a_db \in valid_db

(* line 48: os.path.isfile *)
IsFile(a_input) == a_input \in ExistingFiles

Construct(a_input, a_db, a_time, a_append) ==
    /\ pc = "start"
    /\ driver = "main" => a_input # "i"
    /\ args' = [input |-> a_input, db |-> a_db]
    /\ time_interv' = a_time
    /\ time' = CoerceInterval(a_time)
    /\ append_barcode' = a_append
    /\ IF ~IsValidDb(a_db)
       THEN Exit(0) /\ db' = db
       ELSE /\ db' = a_db
            /\ IF ~IsFile(a_input)
               THEN Exit(0)
               ELSE pc' = "ready" /\ exc' = exc
    /\ UNCHANGED <<driver, encodeAcceptsStr, writeAcceptsBytes, input_file,
                   api_token, barcodes, barcode_error_log, fasta_error_log,
                   it, n, phase, fasta_url, direct_calls, files, trace>>

----------------------------------------------------------------------------
(* get_api_token *)

server == "https://enterobase.warwick.ac.uk"
apiaddress == <<server, "/api/v2.0/login?username=", "user", "&password=", "pass">>

(* What urlopen can do with a request: a response (a 2xx status and a body), *)
(* an HTTPError, or a failure that is no HTTPError                           *)
Responses(codes, bodies) ==
    {[kind |-> "response", code |-> c, msg |-> "OK", body |-> b] :
        c \in codes, b \in bodies}
HTTPFailures(errs) ==
    {[kind |-> "http_error", code |-> e.code, msg |-> e.msg, body |-> e.body] :
        e \in errs}
TransportFailure ==
    [kind |-> "url_error", code |-> 0, msg |-> "", body |-> ""]

(* The login answers: a body with an api_token field, a body without one *)
(* (""), an HTTP error, a transport failure                              *)
LoginOutcomes ==
    Responses({HTTP_OK}, {"api_token", ""}) \cup HTTPFailures(LoginErrors)
        \cup {TransportFailure}

(* get_api_token with the HTTP error swallowed *)
get_api_token_lenient(o, cont) ==
    /\ trace' = Append(trace, Event("login", it, apiaddress, None, o, 0))
    /\ CASE o.kind = "response" /\ o.body # "" ->
              /\ api_token' = Cardinality(Logins) + 1
              /\ pc' = cont /\ exc' = exc
         [] o.kind = "response" /\ o.body = "" ->
              api_token' = api_token /\ Raise("KeyError")
         [] o.kind = "http_error" ->
              api_token' = api_token /\ pc' = cont /\ exc' = exc
         [] OTHER -> api_token' = api_token /\ Raise("URLError")

(* The body of get_api_token; cont is where the caller goes on *)
get_api_token(o, cont) ==
    /\ trace' = Append(trace, Event("login", it, apiaddress, None, o, 0))
    /\ CASE o.kind = "response" /\ o.body # "" ->
              /\ api_token' = Cardinality(Logins) + 1
              /\ pc' = cont /\ exc' = exc
         [] o.kind = "response" /\ o.body = "" ->
              api_token' = api_token /\ Raise("KeyError")
         [] o.kind = "http_error" -> api_token' = api_token /\ Exit(1)
         [] OTHER -> api_token' = api_token /\ Raise("URLError")

(* The driver calls get_api_token: main once (line 56), another caller as it likes *)
GetApiTokenDirect(o) ==
    /\ pc = "ready"
    /\ IF driver = "main" THEN direct_calls = 0 ELSE direct_calls < MaxDirectCalls
    /\ direct_calls' = direct_calls + 1
    /\ get_api_token(o, "ready")
    /\ UNCHANGED <<args, driver, encodeAcceptsStr, writeAcceptsBytes, input_file,
                   time_interv, time, append_barcode, db, barcodes,
                   barcode_error_log, fasta_error_log, it, n, phase, fasta_url,
                   files>>

----------------------------------------------------------------------------
(* import_barcodes *)

Keys(d) == {d[j][1] : j \in 1..Len(d)}

SetItemKeepFirst(d, nm, bc) ==
    IF nm \in Keys(d) THEN d ELSE Append(d, <<nm, bc>>)

SetItemInFront(d, nm, bc) ==
    IF nm \in Keys(d)
    THEN [j \in 1..Len(d) |-> IF d[j][1] = nm THEN <<nm, bc>> ELSE d[j]]
    ELSE <<(<<nm, bc>>)>> \o d

(* d[name] = barcode on an insertion-ordered dict *)
SetItem(d, name, barcode) ==
    IF name \in Keys(d)
    THEN [j \in 1..Len(d) |-> IF d[j][1] = name THEN <<name, barcode>> ELSE d[j]]
    ELSE Append(d, <<name, barcode>>)

Whitespace == {" ", "\t", "\n"}

RECURSIVE LStrip(_)
LStrip(line) ==
    IF line # <<>> /\ line[1] \in Whitespace THEN LStrip(Tail(line)) ELSE line

RECURSIVE RStrip(_)
RStrip(line) ==
    IF line # <<>> /\ line[Len(line)] \in Whitespace
    THEN RStrip(SubSeq(line, 1, Len(line) - 1))
    ELSE line

(* str.strip() *)
Strip(line) == RStrip(LStrip(line))

RECURSIVE SplitFrom(_, _, _)
(* the fields of rest, the field being read holding cur already *)
SplitFrom(rest, sep, cur) ==
    IF rest = <<>> THEN <<cur>>
    ELSE IF rest[1] = sep THEN <<cur>> \o SplitFrom(Tail(rest), sep, <<>>)
    ELSE SplitFrom(Tail(rest), sep, Append(cur, rest[1]))

(* str.split(sep): the fields between the separators, the empty ones too *)
Split(line, sep) == SplitFrom(line, sep, <<>>)

(* line 99: line.strip().split("\t") *)
Fields(line) == Split(Strip(line), "\t")

(* a field as the registry keeps it; the fields of RawLines are one piece each *)
Text(field) == field[1]

RECURSIVE ReadLines(_, _)
(* lines 98-100: the dict when the loop ends, or when line 99 raises *)
ReadLines(d, lines) ==
    IF lines = <<>> \/ Len(Fields(lines[1])) # 2 THEN d
    ELSE ReadLines(SetItem(d, Text(Fields(lines[1])[1]), Text(Fields(lines[1])[2])),
                   Tail(lines))

(* line 99 unpacks two values from every line *)
WellFormed(lines) == \A j \in 1..Len(lines) : Len(Fields(lines[j])) = 2

ImportBarcodes ==
    /\ pc = "ready"
    /\ driver = "main" => direct_calls = 1
    /\ IF WellFormed(input_file)
       THEN /\ barcodes' = ReadLines(<<>>, input_file)
            /\ pc' = "loop" /\ exc' = exc
       ELSE /\ barcodes' = ReadLines(<<>>, input_file)
            /\ Raise("ValueError")
    /\ UNCHANGED <<args, driver, encodeAcceptsStr, writeAcceptsBytes, input_file,
                   time_interv, time, append_barcode, db, api_token,
                   barcode_error_log, fasta_error_log, it, n, phase, fasta_url,
                   direct_calls, files, trace>>

----------------------------------------------------------------------------
(* download_assemblies *)

name == barcodes[it][1]
barcode == barcodes[it][2]

(* line 110 *)
url == <<"http://enterobase.warwick.ac.uk/api/v2.0/", db,
         "/assemblies?barcode=", barcode, "&limit=50">>

ExhaustedEarly == it >= 1 \/ it >= Len(barcodes)

(* line 108: the iteration over the dict has no item left *)
Exhausted == it >= Len(barcodes)

(* line 108: the for statement takes the next item of the dict *)
NextEntry ==
    /\ pc = "loop"
    /\ ~Exhausted
    /\ it' = it + 1
    /\ phase' = "resolve"
    /\ pc' = "create"
    /\ UNCHANGED <<args, exc, driver, encodeAcceptsStr, writeAcceptsBytes, input_file,
                   time_interv, time, append_barcode, db, api_token, barcodes,
                   barcode_error_log, fasta_error_log, n, fasta_url,
                   direct_calls, files, trace>>

(* line 108: the dict is exhausted *)
LoopExit ==
    /\ pc = "loop"
    /\ Exhausted
    /\ pc' = "write_barcode_errors"
    /\ UNCHANGED <<args, exc, driver, encodeAcceptsStr, writeAcceptsBytes, input_file,
                   time_interv, time, append_barcode, db, api_token, barcodes,
                   barcode_error_log, fasta_error_log, it, n, phase, fasta_url,
                   direct_calls, files, trace>>

AlwaysNeedsToken == TRUE
NeverNeedsToken == FALSE

(* line 149 *)
NeedsToken == api_token = None

(* __create_request, lines 149-150: no token yet, so get one *)
CreateRequestToken(o) ==
    /\ pc = "create"
    /\ NeedsToken
    /\ get_api_token(o, "create")
    /\ UNCHANGED <<args, driver, encodeAcceptsStr, writeAcceptsBytes, input_file,
                   time_interv, time, append_barcode, db, barcodes,
                   barcode_error_log, fasta_error_log, it, n, phase, fasta_url,
                   direct_calls, files>>

(* __create_request, lines 152-156: build the request and its header *)
CreateRequest ==
    /\ pc = "create"
    /\ ~NeedsToken
    /\ IF encodeAcceptsStr
       THEN pc' = "urlopen" /\ exc' = exc
       ELSE Raise("TypeError")
    /\ UNCHANGED <<args, driver, encodeAcceptsStr, writeAcceptsBytes, input_file,
                   time_interv, time, append_barcode, db, api_token, barcodes,
                   barcode_error_log, fasta_error_log, it, n, phase, fasta_url,
                   direct_calls, files, trace>>

(* line 131 *)
LookupErrorRecord(r) ==
    << StrField(<<name>>), StrField(<<barcode>>),
       StrField(<<"Query address: ">> \o url),
       StrField(<<"Reason: ", r.body, ", ", r.msg>>) >>

(* lines 113-115 and 130-131: the resolve request *)
Resolve(r, links) ==
    /\ pc = "urlopen"
    /\ phase = "resolve"
    /\ trace' = Append(trace, Event("resolve", it, url, api_token, r, 0))
    /\ CASE r.kind = "response" /\ links # <<>> ->
              /\ fasta_url' = links[1]
              /\ phase' = "download"
              /\ pc' = "create" /\ exc' = exc
              /\ barcode_error_log' = barcode_error_log
         [] r.kind = "response" /\ links = <<>> ->
              /\ Raise("IndexError")
              /\ UNCHANGED <<fasta_url, phase, barcode_error_log>>
         [] r.kind = "http_error" ->
              /\ barcode_error_log' = Append(barcode_error_log, LookupErrorRecord(r))
              /\ pc' = "progress" /\ exc' = exc
              /\ UNCHANGED <<fasta_url, phase>>
         [] OTHER ->
              /\ Raise("URLError")
              /\ UNCHANGED <<fasta_url, phase, barcode_error_log>>
    /\ UNCHANGED <<args, driver, encodeAcceptsStr, writeAcceptsBytes, input_file,
                   time_interv, time, append_barcode, db, api_token, barcodes,
                   fasta_error_log, it, n, direct_calls, files>>

(* lines 120-123 *)
fasta_out_filename ==
    IF append_barcode
    THEN <<OutDir>> \o Join(<<"__">>, << <<name>>, <<barcode>> >>) \o <<".fna">>
    ELSE <<OutDir>> \o <<name>> \o <<".fna">>

(* line 127 *)
InvalidResponseRecord(r) ==
    << StrField(<<name>>), StrField(<<barcode>>), StrField(fasta_url),
       IntField(r.code),
       StrField(<<"Failed download with an invalid server response.">>) >>

(* line 129 *)
DownloadErrorRecord(r) ==
    << StrField(<<name>>), StrField(<<barcode>>), StrField(fasta_url),
       StrField(<<"Failed download as ", r.body, ", ", r.msg>>) >>

IsSuccessAny2xx(r) == r.kind = "response"

(* line 119 *)
IsSuccess(r) == r.kind = "response" /\ r.code = HTTP_OK

Sent(r) == Append(trace, Event("download", it, fasta_url, api_token, r, 0))

(* lines 118-129: the download request *)
Download(r) ==
    /\ pc = "urlopen"
    /\ phase = "download"
    /\ CASE IsSuccess(r) ->
              /\ fasta_error_log' = fasta_error_log
              /\ IF writeAcceptsBytes
                 THEN /\ files' = WriteFile(files, fasta_out_filename, <<r.body>>)
                      /\ pc' = "progress" /\ exc' = exc
                 ELSE /\ files' = WriteFile(files, fasta_out_filename, <<>>)
                      /\ Raise("TypeError")
         [] r.kind = "response" /\ ~IsSuccess(r) ->
              /\ fasta_error_log' = Append(fasta_error_log, InvalidResponseRecord(r))
              /\ pc' = "progress" /\ exc' = exc
              /\ files' = files
         [] r.kind = "http_error" ->
              /\ fasta_error_log' = Append(fasta_error_log, DownloadErrorRecord(r))
              /\ pc' = "progress" /\ exc' = exc
              /\ files' = files
         [] OTHER ->
              /\ Raise("URLError")
              /\ UNCHANGED <<fasta_error_log, files>>
    /\ trace' = IF IsSuccess(r)
                THEN Append(Sent(r), Event("open", it, fasta_out_filename, None, NoAnswer, 0))
                ELSE Sent(r)
    /\ UNCHANGED <<args, driver, encodeAcceptsStr, writeAcceptsBytes, input_file,
                   time_interv, time, append_barcode, db, api_token, barcodes,
                   barcode_error_log, it, n, phase, fasta_url, direct_calls>>

NoSleep(tr) == tr

(* line 135 *)
Sleep(tr) == Append(tr, Event("wait", it, <<>>, None, NoAnswer, time))

NotCounted(m) == m

(* line 132 *)
Counted(m) == m + 1

(* lines 132-135: count, report progress, sleep *)
Progress ==
    /\ pc = "progress"
    /\ n' = Counted(n)
    /\ trace' = Sleep(trace)
    /\ pc' = "loop"
    /\ UNCHANGED <<args, exc, driver, encodeAcceptsStr, writeAcceptsBytes, input_file,
                   time_interv, time, append_barcode, db, api_token, barcodes,
                   barcode_error_log, fasta_error_log, it, phase, fasta_url,
                   direct_calls, files>>

----------------------------------------------------------------------------
(* __write_error_messages *)

IsStrLine(line) == \A j \in 1..Len(line) : line[j].t = "str"

(* "\t".join(line) + "\n" *)
LogLine(line) ==
    Join(<<"\t">>, [j \in 1..Len(line) |-> line[j].s]) \o <<"\n">>

RECURSIVE LogText(_)
(* what the loop of lines 162-163 has written when it ends or raises *)
LogText(error_messages) ==
    IF error_messages = <<>> \/ ~IsStrLine(error_messages[1]) THEN <<>>
    ELSE LogLine(error_messages[1]) \o LogText(Tail(error_messages))

LogPath(base_name) == <<OutDir, base_name, Timestamp, ".log">>

write_error_messages(error_messages, base_name, cont) ==
    /\ files' = WriteFile(files, LogPath(base_name), LogText(error_messages))
    /\ trace' = Append(trace, Event("open", 0, LogPath(base_name), None, NoAnswer, 0))
    /\ IF \A j \in 1..Len(error_messages) : IsStrLine(error_messages[j])
       THEN pc' = cont /\ exc' = exc
       ELSE Raise("TypeError")

(* line 138 *)
WriteBarcodeErrors ==
    /\ pc = "write_barcode_errors"
    /\ write_error_messages(barcode_error_log, "barcode_errors", "write_fasta_errors")
    /\ UNCHANGED <<args, driver, encodeAcceptsStr, writeAcceptsBytes, input_file,
                   time_interv, time, append_barcode, db, api_token, barcodes,
                   barcode_error_log, fasta_error_log, it, n, phase, fasta_url,
                   direct_calls>>

(* line 139 *)
WriteFastaErrors ==
    /\ pc = "write_fasta_errors"
    /\ write_error_messages(barcode_error_log, "fasta_errors", "done")
    /\ UNCHANGED <<args, driver, encodeAcceptsStr, writeAcceptsBytes, input_file,
                   time_interv, time, append_barcode, db, api_token, barcodes,
                   barcode_error_log, fasta_error_log, it, n, phase, fasta_url,
                   direct_calls>>

----------------------------------------------------------------------------

Next ==
    \/ PrintInstructions
    \/ \E a_input \in InputArgs, a_db \in Databases, a_time \in Intervals,
          a_append \in BOOLEAN : Construct(a_input, a_db, a_time, a_append)
    \/ \E o \in LoginOutcomes : GetApiTokenDirect(o)
    \/ ImportBarcodes
    \/ NextEntry
    \/ LoopExit
    \/ \E o \in LoginOutcomes : CreateRequestToken(o)
    \/ CreateRequest
    \/ \E r \in Responses({HTTP_OK}, {"json"}) \cup HTTPFailures(HTTPErrors)
                \cup {TransportFailure},
          links \in SeqsUpTo(Links, 1) : Resolve(r, links)
    \/ \E r \in Responses({HTTP_OK} \cup OtherCodes, Bodies)
                \cup HTTPFailures(HTTPErrors) \cup {TransportFailure} : Download(r)
    \/ Progress
    \/ WriteBarcodeErrors
    \/ WriteFastaErrors

Spec == Init /\ [][Next]_vars

----------------------------------------------------------------------------
(* Vocabulary of the properties *)

Last == trace[Len(trace)]
Entries == 1..Len(barcodes)

(* the records of a log that carry the name of the entry at position k *)
RecordsFor(log, k) == {j \in 1..Len(log) : log[j][1].s = <<barcodes[k][1]>>}

(* the name the output file of the entry at position k is to have *)
ClaimedPath(k) ==
    IF append_barcode
    THEN <<OutDir, barcodes[k][1], "__", barcodes[k][2], ".fna">>
    ELSE <<OutDir, barcodes[k][1], ".fna">>

Opens(path) == {j \in 1..Len(trace) : trace[j].ev = "open" /\ trace[j].url = path}

NewLines(text) == {j \in 1..Len(text) : text[j] = "\n"}

(* C1: when download_assemblies has returned, the lookup-error log holds    *)
(* exactly the lookup-error records and the download-error log exactly the  *)
(* download-error records.                                                  *)
C1_EachLogFromItsOwnSequence ==
    pc = "done" =>
        /\ Data(LogPath("barcode_errors")) = LogText(barcode_error_log)
        /\ Data(LogPath("fasta_errors")) = LogText(fasta_error_log)
        /\ Cardinality(NewLines(Data(LogPath("fasta_errors")))) = Len(fasta_error_log)

(* C2: a resolve or download request that ends in an HTTP error or in a     *)
(* transport failure leaves the loop running: a record for the entry is   *)
(* appended and the flow goes on to the progress report.                    *)
C2_NoFailureEscapesTheLoop ==
    (trace # <<>> /\ Last.ev \in {"resolve", "download"}
        /\ Last.kind \in {"http_error", "url_error"}) =>
        /\ pc = "progress"
        /\ RecordsFor(IF Last.ev = "resolve" THEN barcode_error_log
                      ELSE fasta_error_log, Last.k) # {}

(* C3: an entry whose resolve request failed gets no download request,      *)
(* exactly one lookup-error record, no download-error record and no file.   *)
C3_ResolveFailureIsOneLookupRecord ==
    \A j \in 1..Len(trace) :
        (trace[j].ev = "resolve" /\ trace[j].kind # "response") =>
            /\ Requests("download", trace[j].k) = {}
            /\ Cardinality(RecordsFor(barcode_error_log, trace[j].k)) = 1
            /\ RecordsFor(fasta_error_log, trace[j].k) = {}
            /\ ClaimedPath(trace[j].k) \notin Paths

(* C4: an entry whose download request is answered with a status other than *)
(* 200, as an HTTP error or as a response, gets no file, exactly one        *)
(* download-error record and no lookup-error record.                        *)
C4_Non200IsOneDownloadRecord ==
    \A j \in 1..Len(trace) :
        (trace[j].ev = "download" /\ trace[j].kind \in {"response", "http_error"}
            /\ trace[j].code # 200) =>
            /\ ClaimedPath(trace[j].k) \notin Paths
            /\ Opens(ClaimedPath(trace[j].k)) = {}
            /\ Cardinality(RecordsFor(fasta_error_log, trace[j].k)) = 1
            /\ RecordsFor(barcode_error_log, trace[j].k) = {}

(* a finished run of two entries, one answered 204 and one answered 404 *)
C4_Witness ==
    /\ pc = "done"
    /\ \E i, j \in 1..Len(trace) :
        /\ trace[i].ev = "download" /\ trace[i].kind = "response" /\ trace[i].code = 204
        /\ trace[j].ev = "download" /\ trace[j].kind = "http_error"
    /\ Len(fasta_error_log) = 2

Successful(j) == trace[j].kind = "response" /\ trace[j].body # ""
LazyLogins == {j \in Logins : trace[j].k >= 1}

C7_LoginRefusedEndsTheRun ==
    \A j \in Logins :
        trace[j].kind = "http_error" =>
            /\ pc = "exit1"
            /\ j = Len(trace)
            /\ \A i \in 1..Len(trace) : trace[i].ev \notin {"resolve", "download", "open", "wait"}
            /\ n = 0
            /\ files = {}

(* main, with entries to process, refused at the login *)
C7_Witness ==
    /\ driver = "main" /\ pc = "exit1"
    /\ input_file # <<>>
    /\ Last.ev = "login" /\ Last.code = 401

(* C8: in a run that has ended after starting on its entries, the wait was  *)
(* executed exactly once for every entry of the registry.                   *)
C8_OneWaitPerEntry ==
    (pc \in {"done", "crash"} /\ Requests("resolve", 1) # {}) =>
        \A k \in Entries : Cardinality(Waits(k)) = 1

(* the entry at position k has reached Downloaded, LookupFailed or DownloadFailed *)
Outcome(j, k) ==
    /\ trace[j].k = k
    /\ \/ trace[j].ev = "resolve" /\ trace[j].kind = "http_error"
       \/ trace[j].ev = "download" /\ trace[j].kind \in {"response", "http_error"}

(* C9: entries are processed in the order of the registry, one at a time:   *)
(* nothing is done for an earlier entry after a later one, no entry is      *)
(* requested twice, the resolve request at position k asks for the          *)
(* identifier stored at position k, and it is sent only after every earlier *)
(* entry has reached its outcome and then had its wait.                     *)
C9_InOrderOneAtATime ==
    /\ \A i, j \in 1..Len(trace) :
        (i < j /\ trace[i].k >= 1 /\ trace[j].k >= 1) => trace[i].k <= trace[j].k
    /\ \A k \in Entries :
        /\ Cardinality(Requests("resolve", k)) <= 1
        /\ Cardinality(Requests("download", k)) <= 1
        /\ Cardinality(Waits(k)) <= 1
    /\ \A j \in 1..Len(trace) :
        trace[j].ev = "resolve" =>
            /\ trace[j].k \in Entries
            /\ trace[j].url[4] = barcodes[trace[j].k][2]
            /\ \A k \in 1..(trace[j].k - 1) :
                \E w \in 1..(j - 1) :
                    /\ trace[w].ev = "wait" /\ trace[w].k = k
                    /\ \E o \in 1..(w - 1) : Outcome(o, k)

(* a finished run of two entries, the first of which failed *)
C9_Witness ==
    /\ pc = "done"
    /\ Requests("resolve", 2) # {}
    /\ RecordsFor(barcode_error_log, 1) # {}

IsPrefix(a, b) == Len(a) <= Len(b) /\ SubSeq(b, 1, Len(a)) = a
LogBases == {"barcode_errors", "fasta_errors"}

LogsOnlyAtTheEnd ==
    /\ (\E b \in LogBases : LogPath(b) \in Paths) =>
        /\ it = Len(barcodes) /\ n = Len(barcodes)
        /\ pc \in {"write_fasta_errors", "done"}
    /\ \A b \in LogBases : Cardinality(Opens(LogPath(b))) <= 1
    /\ pc = "done" => \A b \in LogBases : Cardinality(Opens(LogPath(b))) = 1

(* C10: both error sequences only grow, and the log files are written once, *)
(* after the last entry has been processed: no log file exists before.      *)
C10_GrowThenFlushOnce ==
    /\ []LogsOnlyAtTheEnd
    /\ [][/\ IsPrefix(barcode_error_log, barcode_error_log')
          /\ IsPrefix(fasta_error_log, fasta_error_log')]_vars

(* a finished run in which both sequences grew *)
C10_Witness ==
    /\ pc = "done"
    /\ barcode_error_log # <<>> /\ fasta_error_log # <<>>
    /\ \A b \in LogBases : LogPath(b) \in Paths

(* the constructor has run (main skips it when the input argument is "i") *)
Constructed == pc # "start" /\ ~(driver = "main" /\ args.input = "i")

(* C11: when the database name is not a valid one or the input file does    *)
(* not exist, the run ends in the constructor with exit status 0, before    *)
(* any request is sent and before any file is written.                      *)
C11_BadConfigurationExitsEarly ==
    (Constructed /\ (args.db \notin valid_db \/ args.input \notin ExistingFiles)) =>
        /\ pc = "exit0"
        /\ trace = <<>>
        /\ files = {}
        /\ api_token = None

(* the constructor was given a valid database and a list that is not there *)
C11_Witness ==
    /\ Constructed /\ pc = "exit0"
    /\ args.db \in valid_db /\ args.input = "missing.tsv"

(* import_barcodes has returned *)
Loaded ==
    \/ pc \in {"loop", "create", "urlopen", "progress", "write_barcode_errors",
               "write_fasta_errors", "done"}
    \/ pc \in {"crash", "exit1"} /\ it >= 1

(* every line of the list is a name, a tab, an identifier and a newline, *)
(* with no blank around them                                             *)
IsEntryLine(line) ==
    /\ Len(line) = 4
    /\ line[1] \notin Whitespace /\ line[2] = "\t"
    /\ line[3] \notin Whitespace /\ line[4] = "\n"
ListIsWellFormed == \A j \in 1..Len(input_file) : IsEntryLine(input_file[j])

NamesInList == {input_file[j][1] : j \in 1..Len(input_file)}
LastLineOf(nm) ==
    CHOOSE j \in 1..Len(input_file) :
        /\ input_file[j][1] = nm
        /\ \A i \in (j + 1)..Len(input_file) : input_file[i][1] # nm

(* C12: the registry read from a list has one entry for every distinct name *)
(* of the list, and a name's identifier is that of the last line that       *)
(* carries the name.                                                        *)
C12_LastOccurrenceWins ==
    (Loaded /\ ListIsWellFormed) =>
        /\ Keys(barcodes) = NamesInList
        /\ Len(barcodes) = Cardinality(NamesInList)
        /\ \A k \in 1..Len(barcodes) :
            barcodes[k][2] = input_file[LastLineOf(barcodes[k][1])][3]

(* a list whose two lines carry one name and two identifiers has been read *)
C12_Witness ==
    /\ Loaded /\ ListIsWellFormed
    /\ Len(input_file) = 2
    /\ input_file[1][1] = input_file[2][1] /\ input_file[1][3] # input_file[2][3]
    /\ Len(barcodes) = 1

NoDuplicateNames == Cardinality(NamesInList) = Len(input_file)

(* C13: the registry read from a well-formed list of N lines with no name   *)
(* twice has N entries, in the order of the lines.                          *)
C13_OneEntryPerLineInOrder ==
    (Loaded /\ ListIsWellFormed /\ NoDuplicateNames) =>
        /\ Len(barcodes) = Len(input_file)
        /\ \A k \in 1..Len(barcodes) :
            barcodes[k] = <<input_file[k][1], input_file[k][3]>>

(* a list of two lines with two names has been read *)
C13_Witness ==
    /\ Loaded /\ ListIsWellFormed /\ NoDuplicateNames
    /\ Len(input_file) = 2 /\ Len(barcodes) = 2

(* C14: the interval of the rate limiter is the configured one when that is *)
(* positive and 4 otherwise; it is never zero or negative, and every wait   *)
(* lasts that long.                                                         *)
C14_IntervalIsPositive ==
    Constructed =>
        /\ time = (IF time_interv > 0 THEN time_interv ELSE 4)
        /\ time > 0
        /\ \A j \in 1..Len(trace) : trace[j].ev = "wait" => trace[j].secs = time

(* a wait of 4 seconds in a run configured with a negative interval *)
C14_Witness ==
    /\ time_interv = -1
    /\ \E j \in 1..Len(trace) : trace[j].ev = "wait" /\ trace[j].secs = 4

(* the output files created so far, and what the entry at position k has got *)
FilesCreated == {j \in 1..Len(trace) : trace[j].ev = "open" /\ trace[j].k >= 1}
OutcomesOf(k) ==
    Cardinality({j \in FilesCreated : trace[j].k = k})
        + Cardinality(RecordsFor(barcode_error_log, k))
        + Cardinality(RecordsFor(fasta_error_log, k))
OutcomesSoFar ==
    Cardinality(FilesCreated) + Len(barcode_error_log) + Len(fasta_error_log)

(* C15, as stated: at every point of download_assemblies the files created  *)
(* plus the records of both logs number n.                                  *)
C15_OutcomesEqualCounterEverywhere ==
    /\ OutcomesSoFar = n
    /\ \A k \in Entries : OutcomesOf(k) <= 1

(* C15, amended: between two iterations and after the loop the files        *)
(* created plus the records of both logs number n, and each of the first n  *)
(* entries has exactly one of them; inside an iteration the entry being     *)
(* processed may have its outcome already while n does not count it yet.    *)
C15_OutcomesEqualCounterBetweenEntries ==
    /\ pc \in {"loop", "write_barcode_errors", "write_fasta_errors", "done"} =>
        /\ OutcomesSoFar = n
        /\ n = it
        /\ \A k \in 1..n : OutcomesOf(k) = 1
    /\ OutcomesSoFar \in {n, n + 1}
    /\ \A k \in Entries : OutcomesOf(k) <= 1

(* a finished run of two entries: one file, one lookup-error record *)
C15_Witness ==
    /\ pc = "done" /\ n = 2
    /\ Cardinality(FilesCreated) = 1 /\ Len(barcode_error_log) = 1

(* C16: a run in which every request was answered, by a response or by an   *)
(* HTTP error, goes through all its entries and writes its logs: it does    *)
(* not end in an exception once its first request is sent.  Stated where    *)
(* the interpreter returns from lines 125 and 153.                          *)
C16_AnsweredRunReturns ==
    (/\ Requests("resolve", 1) # {}
     /\ encodeAcceptsStr /\ writeAcceptsBytes
     /\ \A j \in 1..Len(trace) : trace[j].kind # "url_error") =>
        pc # "crash"

(* C17: every resolve and download request carries the token of the latest  *)
(* login that returned one; none is sent while no token is cached.          *)
C17_RequestsCarryAToken ==
    \A j \in 1..Len(trace) :
        trace[j].ev \in {"resolve", "download"} =>
            /\ trace[j].auth # None
            /\ \E i \in Logins :
                /\ i < j /\ Successful(i)
                /\ trace[j].auth = Cardinality({l \in Logins : l <= i})
                /\ \A l \in Logins : (i < l /\ l < j) => ~Successful(l)

(* download_assemblies called with no call of get_api_token before it *)
C17_Witness ==
    /\ driver = "api" /\ direct_calls = 0
    /\ Requests("resolve", 1) # {} /\ Requests("download", 1) # {}

====
